---- MODULE Spec2Model ----
(***************************************************************************)
(* Model of jb0n/porkbun-ddns: the UpdateDDNS workflow of porkbunddns.go.  *)
(* One run resolves the public IPv4 and IPv6 addresses, retrieves the      *)
(* provider's records, decides per family whether an update is needed by   *)
(* looking at the FIRST configured name only, and then edits the A and     *)
(* AAAA records of every configured name, stopping at the first error.     *)
(* Every network call is one step; its response is chosen by the           *)
(* environment.                                                            *)
(***************************************************************************)
EXTENDS Naturals, Sequences, FiniteSets, TLC

VARIABLES
    config,           \* Config: Domain, Subdomains, TTL
    published,        \* the provider's records of the domain, in retrieve order
    files,            \* contents of the files Config.IPv4File / Config.IPv6File
    pc,               \* position of the run inside UpdateDDNS
    currentIPv4,      \* local of UpdateDDNS
    currentIPv6,      \* local of UpdateDDNS
    records,          \* local of UpdateDDNS: the retrieved snapshot
    ipv4NeedsUpdate,  \* local of UpdateDDNS
    ipv6NeedsUpdate,  \* local of UpdateDDNS
    idx,              \* position of the range loop over config.Subdomains
    result,           \* "running", "ok" (nil), "error", "panic"
    err,              \* the error UpdateDDNS returned
    calls,            \* history: the network calls of this run, in order
    atStart,          \* history: published and files when this run started
    run,              \* number of the current run
    prev              \* history: summary of the previous run

vars == <<config, published, files, pc, currentIPv4, currentIPv6, records,
          ipv4NeedsUpdate, ipv6NeedsUpdate, idx, result, err, calls,
          atStart, run, prev>>

----------------------------------------------------------------------------
(* Bounds and input sets *)

MaxNames == 2      \* longest config.Subdomains
MaxRecords == 2    \* most records the provider holds before the first run
MaxRuns == 2       \* runs of the multi-run specification

TheDomain == "example.com"
Labels == {"", "www"}
IPv4s == {"1.1.1.1", "2.2.2.2"}
IPv6s == {"::1", "::2"}
TTLs == {600}
Whitespace == {" ", "\n"}

SeqsUpTo(S, n) == UNION {[1..k -> S] : k \in 0..n}

----------------------------------------------------------------------------
(* strings.TrimSpace over a body given as a sequence of tokens *)

RECURSIVE DropLeading(_)
DropLeading(s) ==
    IF s = <<>> THEN <<>>
    ELSE IF Head(s) \in Whitespace THEN DropLeading(Tail(s)) ELSE s

RECURSIVE DropTrailing(_)
DropTrailing(s) ==
    IF s = <<>> THEN <<>>
    ELSE IF s[Len(s)] \in Whitespace THEN DropTrailing(SubSeq(s, 1, Len(s) - 1))
    ELSE s

RECURSIVE Text(_)
Text(s) == IF s = <<>> THEN "" ELSE Head(s) \o Text(Tail(s))

TrimSpace(body) == Text(DropTrailing(DropLeading(body)))

----------------------------------------------------------------------------
(* Errors: a flat record; op = "" is nil *)

NoError == [op |-> "", name |-> "", cause |-> "", body |-> ""]
Error(op, name, cause, body) ==
    [op |-> op, name |-> name, cause |-> cause, body |-> body]

(* Responses of the IP echo services: the request fails, the body cannot be
   read, or a body arrives. *)
IPResponses(addrs) ==
    {[kind |-> "senderr", body |-> <<>>], [kind |-> "readerr", body |-> <<>>]}
    \cup {[kind |-> "body", body |-> <<a>>] : a \in addrs}
    \cup {[kind |-> "body", body |-> <<a, "\n">>] : a \in addrs}

getCurrentIPv4(resp) ==
    IF resp.kind = "senderr"
    THEN [val |-> "", err |-> Error("getIPv4", "", "send", "")]
    ELSE IF resp.kind = "readerr"
    THEN [val |-> "", err |-> Error("getIPv4", "", "read", "")]
    ELSE [val |-> TrimSpace(resp.body), err |-> NoError]

getCurrentIPv6(resp) ==
    IF resp.kind = "senderr"
    THEN [val |-> "", err |-> Error("getIPv6", "", "send", "")]
    ELSE IF resp.kind = "readerr"
    THEN [val |-> "", err |-> Error("getIPv6", "", "read", "")]
    ELSE [val |-> TrimSpace(resp.body), err |-> NoError]

----------------------------------------------------------------------------
(* The provider.  A record is [Name, Type, Content]; the edit-by-name-and-type
   call addresses records by (domain, type, subdomain). *)

Types == {"A", "AAAA"}
ContentsOf(t) == IF t = "A" THEN IPv4s ELSE IPv6s
DNSRecord(n, t, c) == [Name |-> n, Type |-> t, Content |-> c]

(* The name the provider gives the records of a subdomain of a domain. *)
ProviderName(domain, subdomain) ==
    IF subdomain = "" THEN domain ELSE subdomain \o "." \o domain

ProviderNames == {ProviderName(TheDomain, l) : l \in Labels}
RecordSpace ==
    UNION {{DNSRecord(n, t, c) : n \in ProviderNames, c \in ContentsOf(t)} :
             t \in Types}

Matches(recs, name, type) ==
    {k \in 1..Len(recs) : recs[k].Type = type /\ recs[k].Name = name}

(* A successful edit: every record of that name and type gets the content;
   the record is created when there is none (an upsert). *)
ProviderApply(recs, domain, type, subdomain, content) ==
    LET name == ProviderName(domain, subdomain) IN
    IF Matches(recs, name, type) = {}
    THEN Append(recs, DNSRecord(name, type, content))
    ELSE [k \in 1..Len(recs) |->
            IF k \in Matches(recs, name, type)
            THEN [recs[k] EXCEPT !.Content = content]
            ELSE recs[k]]

(* What the provider can answer to a retrieve call. *)
RetrieveResponses(recs) ==
    {[kind |-> "senderr",  Status |-> "",        Records |-> <<>>],
     [kind |-> "readerr",  Status |-> "",        Records |-> <<>>],
     [kind |-> "parseerr", Status |-> "",        Records |-> <<>>],
     [kind |-> "body",     Status |-> "ERROR",   Records |-> <<>>],
     [kind |-> "body",     Status |-> "SUCCESS", Records |-> recs]}

(* What can come back from an edit call.  applied: the provider carried the
   edit out, which it did exactly when it answered SUCCESS, also when that
   answer could then not be read.  Body is the raw body, as tokens. *)
UpdateResponses ==
    {[kind |-> "senderr",  Status |-> "",        applied |-> FALSE,
      Body |-> <<>>],
     [kind |-> "readerr",  Status |-> "",        applied |-> TRUE,
      Body |-> <<>>],
     [kind |-> "parseerr", Status |-> "",        applied |-> FALSE,
      Body |-> <<"<html>">>],
     [kind |-> "body",     Status |-> "",        applied |-> FALSE,
      Body |-> <<"{", "}">>],
     [kind |-> "body",     Status |-> "ERROR",   applied |-> FALSE,
      Body |-> <<"{status:", "ERROR", ",message:", "invalid domain", "}">>],
     [kind |-> "body",     Status |-> "SUCCESS", applied |-> TRUE,
      Body |-> <<"{status:", "SUCCESS", "}">>]}

(* json.Unmarshal(body, &porkbunResp): the Status of a JSON object, "" when
   the object has no status, no result when the body is no JSON object. *)
Unmarshal(body) ==
    IF body = <<"{", "}">> THEN [ok |-> TRUE, Status |-> ""]
    ELSE IF Len(body) >= 3 /\ body[1] = "{status:" /\ body[Len(body)] = "}"
    THEN [ok |-> TRUE, Status |-> body[2]]
    ELSE [ok |-> FALSE, Status |-> ""]

----------------------------------------------------------------------------
(* porkbunddns.go *)

(* retrieveDNSRecords without the status check of lines 110-112. *)
retrieveDNSRecords_NoStatusCheck(resp) ==
    IF resp.kind = "senderr"
    THEN [val |-> <<>>, err |-> Error("retrieve", "", "send", "")]
    ELSE IF resp.kind = "readerr"
    THEN [val |-> <<>>, err |-> Error("retrieve", "", "read", "")]
    ELSE IF resp.kind = "parseerr"
    THEN [val |-> <<>>, err |-> Error("retrieve", "", "parse", "")]
    ELSE [val |-> resp.Records, err |-> NoError]

retrieveDNSRecords(resp) ==
    IF resp.kind = "senderr"
    THEN [val |-> <<>>, err |-> Error("retrieve", "", "send", "")]
    ELSE IF resp.kind = "readerr"
    THEN [val |-> <<>>, err |-> Error("retrieve", "", "read", "")]
    ELSE IF resp.kind = "parseerr"
    THEN [val |-> <<>>, err |-> Error("retrieve", "", "parse", "")]
    ELSE IF resp.Status # "SUCCESS"
    THEN [val |-> <<>>, err |-> Error("retrieve", "", "api", resp.Status)]
    ELSE [val |-> resp.Records, err |-> NoError]

(* expectedName without the case of the base domain. *)
expectedName_NoBaseCase(domain, subdomain) == subdomain \o "." \o domain

expectedName(domain, subdomain) ==
    IF subdomain # "" THEN subdomain \o "." \o domain ELSE domain

(* findDNSRecord without the comparison of the record type. *)
findDNSRecord_AnyType(recs, domain, subdomain, recordType) ==
    LET hits == {k \in 1..Len(recs) :
                   recs[k].Name = expectedName(domain, subdomain)}
    IN IF hits = {} THEN 0
       ELSE CHOOSE k \in hits : \A j \in hits : k <= j

(* findDNSRecord: the index of the first record of that type and name, 0 for
   nil. *)
findDNSRecord(recs, domain, subdomain, recordType) ==
    LET hits == {k \in 1..Len(recs) :
                   /\ recs[k].Type = recordType
                   /\ recs[k].Name = expectedName(domain, subdomain)}
    IN IF hits = {} THEN 0
       ELSE CHOOSE k \in hits : \A j \in hits : k <= j

(* The request addressed to the first configured name, whatever the name the
   loop is at. *)
UpdateRequest_FirstName(cfg, subdomain, ip, recordType) ==
    [op |-> "update", domain |-> cfg.Domain, type |-> recordType,
     sub |-> cfg.Subdomains[1], content |-> ip, ttl |-> cfg.TTL]

(* The request updatePorkbunDNS builds: the URL's three path elements and the
   JSON body. *)
UpdateRequest(cfg, subdomain, ip, recordType) ==
    [op |-> "update", domain |-> cfg.Domain, type |-> recordType,
     sub |-> subdomain, content |-> ip, ttl |-> cfg.TTL]

(* updatePorkbunDNS with the status compared to another spelling. *)
updatePorkbunDNS_WrongCase(resp) ==
    IF resp.kind = "senderr" THEN Error("update", "", "send", "")
    ELSE IF resp.kind = "readerr" THEN Error("update", "", "read", "")
    ELSE IF ~Unmarshal(resp.Body).ok THEN Error("update", "", "parse", "")
    ELSE IF Unmarshal(resp.Body).Status # "success"
    THEN Error("update", "", "api", Text(resp.Body))
    ELSE NoError

(* updatePorkbunDNS with the error of json.Unmarshal (lines 159-161) dropped:
   an unparseable body leaves the zero Status, which the status check then
   has to catch; here it is dropped along with it. *)
updatePorkbunDNS_IgnoreParse(resp) ==
    IF resp.kind = "senderr" THEN Error("update", "", "send", "")
    ELSE IF resp.kind = "readerr" THEN Error("update", "", "read", "")
    ELSE IF ~Unmarshal(resp.Body).ok THEN NoError
    ELSE IF Unmarshal(resp.Body).Status # "SUCCESS"
    THEN Error("update", "", "api", Text(resp.Body))
    ELSE NoError

(* updatePorkbunDNS with an API error that leaves the body out. *)
updatePorkbunDNS_NoBody(resp) ==
    IF resp.kind = "senderr" THEN Error("update", "", "send", "")
    ELSE IF resp.kind = "readerr" THEN Error("update", "", "read", "")
    ELSE IF ~Unmarshal(resp.Body).ok THEN Error("update", "", "parse", "")
    ELSE IF Unmarshal(resp.Body).Status # "SUCCESS"
    THEN Error("update", "", "api", "")
    ELSE NoError

(* The error updatePorkbunDNS returns for a response. *)
updatePorkbunDNS(resp) ==
    IF resp.kind = "senderr" THEN Error("update", "", "send", "")
    ELSE IF resp.kind = "readerr" THEN Error("update", "", "read", "")
    ELSE IF ~Unmarshal(resp.Body).ok THEN Error("update", "", "parse", "")
    ELSE IF Unmarshal(resp.Body).Status # "SUCCESS"
    THEN Error("update", "", "api", Text(resp.Body))
    ELSE NoError

displayName(domain, subdomain) ==
    IF subdomain = "" THEN domain ELSE subdomain \o "." \o domain

(* The decision with the record's Name compared where its Content should be. *)
NeedsUpdate_WrongField(recs, cfg, recordType, current) ==
    LET k == findDNSRecord(recs, cfg.Domain, cfg.Subdomains[1], recordType)
    IN IF k # 0 THEN recs[k].Name # current ELSE TRUE

(* The decision with the comparison inverted: an update when the record
   holds the current address. *)
NeedsUpdate_Equal(recs, cfg, recordType, current) ==
    LET k == findDNSRecord(recs, cfg.Domain, cfg.Subdomains[1], recordType)
    IN IF k # 0 THEN recs[k].Content = current ELSE TRUE

(* Lines 190-202 and 204-216: the update decision of one family. *)
NeedsUpdate(recs, cfg, recordType, current) ==
    LET k == findDNSRecord(recs, cfg.Domain, cfg.Subdomains[1], recordType)
    IN IF k # 0 THEN recs[k].Content # current ELSE TRUE

----------------------------------------------------------------------------
(* State *)

Configs ==
    {[Domain |-> TheDomain, Subdomains |-> subs, TTL |-> ttl] :
        subs \in SeqsUpTo(Labels, MaxNames), ttl \in TTLs}

(* What the two files can hold before a run: nothing, or an older address. *)
NoFiles == [ipv4 |-> "", ipv6 |-> ""]
FileStates == {NoFiles, [ipv4 |-> "2.2.2.2", ipv6 |-> "::2"]}

NoPrev == [result |-> "none", failed |-> "", cause |-> "", ipv4 |-> "", ipv6 |-> ""]

(* The locals of UpdateDDNS before its first statement. *)
RunStart ==
    /\ pc = "getIPv4"
    /\ currentIPv4 = ""
    /\ currentIPv6 = ""
    /\ records = <<>>
    /\ ipv4NeedsUpdate = FALSE
    /\ ipv6NeedsUpdate = FALSE
    /\ idx = 0
    /\ result = "running"
    /\ err = NoError
    /\ calls = <<>>

Init ==
    /\ config \in Configs
    /\ published \in SeqsUpTo(RecordSpace, MaxRecords)
    /\ files \in FileStates
    /\ atStart = [published |-> published, files |-> files]
    /\ run = 1
    /\ prev = NoPrev
    /\ RunStart

(* One entry of the history of calls: the request, what came back (kind,
   status, raw body) and the error the calling function returned. *)
Call(op, type, sub, content, resp, e) ==
    [op |-> op, domain |-> config.Domain, type |-> type, sub |-> sub,
     content |-> content, ttl |-> config.TTL,
     kind |-> resp.kind, status |-> IF resp.kind = "body" /\ "Status" \in DOMAIN resp
                                    THEN resp.Status ELSE "",
     raw |-> IF "Body" \in DOMAIN resp THEN Text(resp.Body) ELSE "",
     err |-> e]

(* return err / return nil *)
Return(e) ==
    /\ pc' = "done"
    /\ result' = IF e = NoError THEN "ok" ELSE "error"
    /\ err' = e

(* Line 172: currentIPv4, err := getCurrentIPv4() *)
GetIPv4 ==
    /\ pc = "getIPv4"
    /\ \E resp \in IPResponses(IPv4s) :
         LET r == getCurrentIPv4(resp) IN
         /\ calls' = Append(calls, Call("getIPv4", "", "", "", resp, r.err))
         /\ IF r.err # NoError
            THEN Return(r.err) /\ UNCHANGED currentIPv4
            ELSE /\ currentIPv4' = r.val
                 /\ pc' = "getIPv6"
                 /\ UNCHANGED <<result, err>>
    /\ UNCHANGED <<config, published, files, currentIPv6, records,
                   ipv4NeedsUpdate, ipv6NeedsUpdate, idx, atStart, run, prev>>

(* Line 176: currentIPv6, err := getCurrentIPv6() *)
GetIPv6 ==
    /\ pc = "getIPv6"
    /\ \E resp \in IPResponses(IPv6s) :
         LET r == getCurrentIPv6(resp) IN
         /\ calls' = Append(calls, Call("getIPv6", "", "", "", resp, r.err))
         /\ IF r.err # NoError
            THEN Return(r.err) /\ UNCHANGED currentIPv6
            ELSE /\ currentIPv6' = r.val
                 /\ pc' = "retrieve"
                 /\ UNCHANGED <<result, err>>
    /\ UNCHANGED <<config, published, files, currentIPv4, records,
                   ipv4NeedsUpdate, ipv6NeedsUpdate, idx, atStart, run, prev>>

(* Lines 182-185: records, err := retrieveDNSRecords(config) *)
Retrieve ==
    /\ pc = "retrieve"
    /\ \E resp \in RetrieveResponses(published) :
         LET r == retrieveDNSRecords(resp) IN
         /\ calls' = Append(calls, Call("retrieve", "", "", "", resp, r.err))
         /\ IF r.err # NoError
            THEN Return(r.err) /\ UNCHANGED records
            ELSE /\ records' = r.val
                 /\ pc' = "decide"
                 /\ UNCHANGED <<result, err>>
    /\ UNCHANGED <<config, published, files, currentIPv4, currentIPv6,
                   ipv4NeedsUpdate, ipv6NeedsUpdate, idx, atStart, run, prev>>

(* Lines 187-219: the decision.  config.Subdomains[0] of an empty list is an
   index out of range: the run panics. *)
Decide ==
    /\ pc = "decide"
    /\ IF Len(config.Subdomains) = 0
       THEN /\ pc' = "done"
            /\ result' = "panic"
            /\ UNCHANGED <<ipv4NeedsUpdate, ipv6NeedsUpdate, idx, err>>
       ELSE LET v4 == NeedsUpdate(records, config, "A", currentIPv4)
                v6 == NeedsUpdate(records, config, "AAAA", currentIPv6)
            IN /\ ipv4NeedsUpdate' = v4
               /\ ipv6NeedsUpdate' = v6
               /\ IF v4 \/ v6
                  THEN /\ pc' = "updateA"
                       /\ idx' = 1
                       /\ UNCHANGED <<result, err>>
                  ELSE Return(NoError) /\ UNCHANGED idx
    /\ UNCHANGED <<config, published, files, currentIPv4, currentIPv6, records,
                   calls, atStart, run, prev>>

(* An updater that stores the address it has just published in the file of
   its family. *)
FilesAfterUpdate_Stored(f, recordType, ip) ==
    IF recordType = "A" THEN [f EXCEPT !.ipv4 = ip] ELSE [f EXCEPT !.ipv6 = ip]

(* updatePorkbunDNS writes to the provider only: the files named by
   Config.IPv4File and Config.IPv6File are left as they are. *)
FilesAfterUpdate(f, recordType, ip) == f

(* One call of updatePorkbunDNS(config, subdomain, ip, recordType), entered
   in the history after log.  The provider's records change when the provider
   applied the edit. *)
UpdateCall(log, subdomain, ip, recordType) ==
    \E resp \in UpdateResponses :
      LET req == UpdateRequest(config, subdomain, ip, recordType)
          e == updatePorkbunDNS(resp)
      IN /\ calls' = Append(log, Call(req.op, req.type, req.sub, req.content,
                                       resp, e))
         /\ published' = IF resp.applied
                         THEN ProviderApply(published, req.domain, req.type,
                                            req.sub, req.content)
                         ELSE published
         /\ files' = IF e = NoError
                     THEN FilesAfterUpdate(files, recordType, ip)
                     ELSE files

(* The error of the call just made. *)
CallErr == calls'[Len(calls')].err

(* Lines 228-233: the A half of one loop iteration. *)
UpdateA ==
    /\ pc = "updateA"
    /\ IF ipv4NeedsUpdate
       THEN /\ UpdateCall(calls, config.Subdomains[idx], currentIPv4, "A")
            /\ IF CallErr # NoError
               THEN /\ Return(Error("updateIPv4",
                                    displayName(config.Domain, config.Subdomains[idx]),
                                    CallErr.cause, CallErr.body))
                    /\ UNCHANGED idx
               ELSE /\ pc' = "updateAAAA"
                    /\ UNCHANGED <<idx, result, err>>
       ELSE /\ pc' = "updateAAAA"
            /\ UNCHANGED <<published, files, idx, result, err, calls>>
    /\ UNCHANGED <<config, currentIPv4, currentIPv6, records, ipv4NeedsUpdate,
                   ipv6NeedsUpdate, atStart, run, prev>>

(* The loop left after its first iteration: a return nil inside the body. *)
NextName_ReturnEarly == Return(NoError) /\ UNCHANGED idx

(* A loop that fetches the records again before its next iteration. *)
NextName_Refetch ==
    IF idx < Len(config.Subdomains)
    THEN /\ idx' = idx + 1
         /\ pc' = "retrieve"
         /\ UNCHANGED <<result, err>>
    ELSE Return(NoError) /\ UNCHANGED idx

(* A loop that does not move on to the next name. *)
NextName_NoAdvance ==
    IF idx < Len(config.Subdomains)
    THEN /\ pc' = "updateA"
         /\ UNCHANGED <<idx, result, err>>
    ELSE Return(NoError) /\ UNCHANGED idx

(* The range loop's next iteration, or the return nil of line 243. *)
NextName ==
    IF idx < Len(config.Subdomains)
    THEN /\ idx' = idx + 1
         /\ pc' = "updateA"
         /\ UNCHANGED <<result, err>>
    ELSE Return(NoError) /\ UNCHANGED idx

(* The AAAA half copied from the A half with the address left as it was. *)
UpdateAAAA_IPv4Content ==
    /\ pc = "updateAAAA"
    /\ IF ipv6NeedsUpdate
       THEN /\ UpdateCall(calls, config.Subdomains[idx], currentIPv4, "AAAA")
            /\ IF CallErr # NoError
               THEN /\ Return(Error("updateIPv6",
                                    displayName(config.Domain, config.Subdomains[idx]),
                                    CallErr.cause, CallErr.body))
                    /\ UNCHANGED idx
               ELSE NextName
       ELSE /\ NextName
            /\ UNCHANGED <<published, files, calls>>
    /\ UNCHANGED <<config, currentIPv4, currentIPv6, records, ipv4NeedsUpdate,
                   ipv6NeedsUpdate, atStart, run, prev>>

(* Lines 235-240: the AAAA half of one loop iteration, and the loop's step. *)
UpdateAAAA ==
    /\ pc = "updateAAAA"
    /\ IF ipv6NeedsUpdate
       THEN /\ UpdateCall(calls, config.Subdomains[idx], currentIPv6, "AAAA")
            /\ IF CallErr # NoError
               THEN /\ Return(Error("updateIPv6",
                                    displayName(config.Domain, config.Subdomains[idx]),
                                    CallErr.cause, CallErr.body))
                    /\ UNCHANGED idx
               ELSE NextName
       ELSE /\ NextName
            /\ UNCHANGED <<published, files, calls>>
    /\ UNCHANGED <<config, currentIPv4, currentIPv6, records, ipv4NeedsUpdate,
                   ipv6NeedsUpdate, atStart, run, prev>>

Next == GetIPv4 \/ GetIPv6 \/ Retrieve \/ Decide \/ UpdateA \/ UpdateAAAA

Spec == Init /\ [][Next]_vars

----------------------------------------------------------------------------
(* Several runs: main is started again by the scheduler, with the same
   configuration, against the provider's records as they now are. *)

NextRun ==
    /\ pc = "done"
    /\ run < MaxRuns
    /\ run' = run + 1
    /\ prev' = [result |-> result,
                failed |-> IF err.op = "updateIPv4" THEN "A"
                           ELSE IF err.op = "updateIPv6" THEN "AAAA" ELSE "",
                cause |-> err.cause,
                ipv4 |-> currentIPv4, ipv6 |-> currentIPv6]
    /\ atStart' = [published |-> published, files |-> files]
    /\ pc' = "getIPv4"
    /\ currentIPv4' = ""
    /\ currentIPv6' = ""
    /\ records' = <<>>
    /\ ipv4NeedsUpdate' = FALSE
    /\ ipv6NeedsUpdate' = FALSE
    /\ idx' = 0
    /\ result' = "running"
    /\ err' = NoError
    /\ calls' = <<>>
    /\ UNCHANGED <<config, published, files>>

NextRuns == Next \/ NextRun

SpecRuns == Init /\ [][NextRuns]_vars

(* A run that returned nil, followed at once by one more run. *)
InitRerun == Init /\ files = NoFiles

Rerun ==
    /\ result = "ok"
    /\ run = 1
    /\ NextRun

NextRerun == Next \/ Rerun

SpecRerun == InitRerun /\ [][NextRerun]_vars

----------------------------------------------------------------------------
(* The record updater on its own: updatePorkbunDNS called twice, each time
   with any name, address and record type.  Here idx counts the calls
   made. *)

InitUpdater ==
    /\ config \in {c \in Configs : c.Subdomains = <<"">>}
    /\ published \in SeqsUpTo(RecordSpace, MaxRecords)
    /\ files = NoFiles
    /\ atStart = [published |-> published, files |-> files]
    /\ run = 1
    /\ prev = NoPrev
    /\ pc = "updater"
    /\ currentIPv4 = ""
    /\ currentIPv6 = ""
    /\ records = <<>>
    /\ ipv4NeedsUpdate = FALSE
    /\ ipv6NeedsUpdate = FALSE
    /\ idx = 0
    /\ result = "running"
    /\ err = NoError
    /\ calls = <<>>

CallUpdater ==
    /\ pc = "updater"
    /\ idx < 2
    /\ idx' = idx + 1
    /\ \E subdomain \in Labels, recordType \in Types :
         \E ip \in ContentsOf(recordType) :
            UpdateCall(calls, subdomain, ip, recordType)
    /\ UNCHANGED <<config, pc, currentIPv4, currentIPv6, records,
                   ipv4NeedsUpdate, ipv6NeedsUpdate, result, err,
                   atStart, run, prev>>

SpecUpdater == InitUpdater /\ [][CallUpdater]_vars

----------------------------------------------------------------------------
(* Vocabulary of the properties *)

MinOf(S) == CHOOSE k \in S : \A j \in S : k <= j

IsUpdate(c) == c.op = "update"
UpdateCalls == SelectSeq(calls, IsUpdate)

(* What came back on the wire was not a readable SUCCESS. *)
IPFailed(c) == c.kind # "body"
APIFailed(c) == c.kind # "body" \/ c.status # "SUCCESS"

EffectiveName(subdomain) ==
    IF subdomain = "" THEN config.Domain ELSE subdomain \o "." \o config.Domain

(* The content of the first record of a name and type, "" when there is none. *)
PublishedContent(recs, name, type) ==
    IF Matches(recs, name, type) = {} THEN ""
    ELSE recs[MinOf(Matches(recs, name, type))].Content

Retrieved ==
    \E k \in 1..Len(calls) : calls[k].op = "retrieve" /\ ~APIFailed(calls[k])

HasNames == Len(config.Subdomains) > 0

----------------------------------------------------------------------------
(* C1: no-op when unchanged.  In a run where both addresses were resolved and
   the records retrieved, and the first configured name's A record holds the
   current IPv4 and its AAAA record the current IPv6, no edit call is issued,
   the provider's records stay as they were and the run ends with nil. *)

C1_Unchanged ==
    /\ HasNames
    /\ Retrieved
    /\ PublishedContent(atStart.published,
                        EffectiveName(config.Subdomains[1]), "A") = currentIPv4
    /\ PublishedContent(atStart.published,
                        EffectiveName(config.Subdomains[1]), "AAAA") = currentIPv6

C1_NoOpWhenUnchanged ==
    C1_Unchanged =>
        /\ UpdateCalls = <<>>
        /\ published = atStart.published
        /\ pc \in {"decide", "done"}
        /\ pc = "done" => result = "ok"

C1_Witness ==
    /\ C1_Unchanged
    /\ pc = "done"
    /\ result = "ok"
    /\ Len(config.Subdomains) >= 2

----------------------------------------------------------------------------
(* C2: no writes after an early failure.  When resolving the IPv4 address,
   resolving the IPv6 address or retrieving the records fails (the request
   fails, the body is unreadable or unparseable, or the status is not
   SUCCESS), the run has returned an error and no edit call was issued. *)

C2_EarlyFailure ==
    \E k \in 1..Len(calls) :
        \/ calls[k].op \in {"getIPv4", "getIPv6"} /\ IPFailed(calls[k])
        \/ calls[k].op = "retrieve" /\ APIFailed(calls[k])

C2_NoWritesAfterEarlyFailure ==
    C2_EarlyFailure =>
        /\ pc = "done"
        /\ result = "error"
        /\ err # NoError
        /\ UpdateCalls = <<>>
        /\ published = atStart.published

C2_Witness ==
    /\ C2_EarlyFailure
    /\ calls[Len(calls)].op = "retrieve"
    /\ calls[Len(calls)].status = "ERROR"
    /\ HasNames
    /\ atStart.published = <<>>
    /\ pc = "done"

----------------------------------------------------------------------------
(* C3: fail-fast on an edit failure.  A failed edit call is the last call of
   its run: the run has returned an error naming that call's name and family;
   the edits that succeeded before it are still in place at the provider. *)

C3_InPlace(c) ==
    /\ Matches(published, EffectiveName(c.sub), c.type) # {}
    /\ \A m \in Matches(published, EffectiveName(c.sub), c.type) :
          published[m].Content = c.content

C3_FailFast ==
    \A k \in 1..Len(calls) :
        (IsUpdate(calls[k]) /\ APIFailed(calls[k])) =>
            /\ k = Len(calls)
            /\ pc = "done"
            /\ result = "error"
            /\ err.op = (IF calls[k].type = "A" THEN "updateIPv4" ELSE "updateIPv6")
            /\ err.name = EffectiveName(calls[k].sub)
            /\ \A j \in 1..(k - 1) : IsUpdate(calls[j]) => C3_InPlace(calls[j])

C3_Witness ==
    /\ Len(UpdateCalls) >= 3
    /\ APIFailed(UpdateCalls[Len(UpdateCalls)])
    /\ UpdateCalls[Len(UpdateCalls)].kind = "body"
    /\ atStart.published # published

----------------------------------------------------------------------------
(* C4: one decision, applied uniformly.  The pair (ipv4NeedsUpdate,
   ipv6NeedsUpdate) does not change once the loop is entered, no edit call
   precedes it, and a run that ends with nil has issued, for each family,
   one edit per entry of the configured list if the family's flag is set and
   none if it is not. *)

C4_Count(subdomain, type) ==
    Cardinality({k \in 1..Len(UpdateCalls) :
                   UpdateCalls[k].sub = subdomain /\ UpdateCalls[k].type = type})

C4_Entries(subdomain) ==
    Cardinality({i \in 1..Len(config.Subdomains) : config.Subdomains[i] = subdomain})

C4_Exact ==
    /\ UpdateCalls # <<>> => pc \in {"updateA", "updateAAAA", "done"}
    /\ (pc = "done" /\ result = "ok") =>
          \A l \in Labels :
             /\ C4_Count(l, "A") = IF ipv4NeedsUpdate THEN C4_Entries(l) ELSE 0
             /\ C4_Count(l, "AAAA") = IF ipv6NeedsUpdate THEN C4_Entries(l) ELSE 0

C4_Fixed ==
    pc \in {"updateA", "updateAAAA"} =>
        /\ ipv4NeedsUpdate' = ipv4NeedsUpdate
        /\ ipv6NeedsUpdate' = ipv6NeedsUpdate

C4_UniformDecision == [][C4_Fixed]_vars /\ []C4_Exact

C4_Witness ==
    /\ pc = "done"
    /\ result = "ok"
    /\ ipv4NeedsUpdate
    /\ ~ipv6NeedsUpdate
    /\ Len(config.Subdomains) >= 2
    /\ config.Subdomains[1] # config.Subdomains[2]

----------------------------------------------------------------------------
(* C5: the live-query staleness decision.  Once decided, a family's flag is
   set exactly when the retrieved records hold no record of that type under
   the effective name of the first configured name, or the first such record
   holds another content than the current address; the records of other names
   have no part in it. *)

C5_Decided ==
    /\ HasNames
    /\ Retrieved
    /\ pc \in {"updateA", "updateAAAA", "done"}

C5_Stale(recs, type, current) ==
    \/ Matches(recs, EffectiveName(config.Subdomains[1]), type) = {}
    \/ recs[MinOf(Matches(recs, EffectiveName(config.Subdomains[1]), type))].Content
          # current

C5_OfFirstName(r) == r.Name = EffectiveName(config.Subdomains[1])

C5_StalenessDecision ==
    C5_Decided =>
        /\ ipv4NeedsUpdate = C5_Stale(records, "A", currentIPv4)
        /\ ipv6NeedsUpdate = C5_Stale(records, "AAAA", currentIPv6)
        /\ ipv4NeedsUpdate =
              C5_Stale(SelectSeq(records, C5_OfFirstName), "A", currentIPv4)
        /\ ipv6NeedsUpdate =
              C5_Stale(SelectSeq(records, C5_OfFirstName), "AAAA", currentIPv6)

C5_Witness ==
    /\ C5_Decided
    /\ ~ipv4NeedsUpdate
    /\ ipv6NeedsUpdate
    /\ \E k \in 1..Len(records) :
          /\ ~C5_OfFirstName(records[k])
          /\ records[k].Type = "A"
          /\ records[k].Content # currentIPv4

----------------------------------------------------------------------------
(* C6: deterministic order.  The edit calls of a run are, in order, a prefix
   of: for each entry of the configured list in list order, the A edit if
   IPv4 changed, then the AAAA edit if IPv6 changed. *)

RECURSIVE C6_Plan(_)
C6_Plan(i) ==
    IF i > Len(config.Subdomains) THEN <<>>
    ELSE (IF ipv4NeedsUpdate THEN <<(<<config.Subdomains[i], "A">>)>> ELSE <<>>)
         \o (IF ipv6NeedsUpdate THEN <<(<<config.Subdomains[i], "AAAA">>)>> ELSE <<>>)
         \o C6_Plan(i + 1)

C6_Issued ==
    [k \in 1..Len(UpdateCalls) |-> <<UpdateCalls[k].sub, UpdateCalls[k].type>>]

C6_DeterministicOrder ==
    /\ Len(C6_Issued) <= Len(C6_Plan(1))
    /\ C6_Issued = SubSeq(C6_Plan(1), 1, Len(C6_Issued))

C6_Witness ==
    /\ Len(UpdateCalls) = 4
    /\ config.Subdomains = <<"www", "">>
    /\ result = "ok"

----------------------------------------------------------------------------
(* C7: retry after a partial failure.  If an edit of some family failed in the
   previous run, then a run that follows with the same addresses and ends
   with nil has issued an edit of that family for every configured name.
   Stated for lists of distinct names and for the failures in which the
   provider refused the edit (an answer other than SUCCESS), so that the
   failed edit was certainly not applied. *)

C7_AfterFailure ==
    /\ run > 1
    /\ \A i, j \in 1..Len(config.Subdomains) :
          config.Subdomains[i] = config.Subdomains[j] => i = j
    /\ prev.failed # ""
    /\ prev.cause = "api"
    /\ pc = "done"
    /\ result = "ok"
    /\ currentIPv4 = prev.ipv4
    /\ currentIPv6 = prev.ipv6

C7_RetryAfterPartialFailure ==
    C7_AfterFailure =>
        \A i \in 1..Len(config.Subdomains) :
            \E k \in 1..Len(UpdateCalls) :
                /\ UpdateCalls[k].sub = config.Subdomains[i]
                /\ UpdateCalls[k].type = prev.failed

----------------------------------------------------------------------------
(* C8: the published state after a successful run.  When a run has ended with
   nil, every configured name has an A record holding the current IPv4
   address and an AAAA record holding the current IPv6 address. *)

C8_Holds(subdomain, type, current) ==
    /\ Matches(published, EffectiveName(subdomain), type) # {}
    /\ \A m \in Matches(published, EffectiveName(subdomain), type) :
          published[m].Content = current

C8_PublishedAfterSuccess ==
    (pc = "done" /\ result = "ok") =>
        \A i \in 1..Len(config.Subdomains) :
            /\ C8_Holds(config.Subdomains[i], "A", currentIPv4)
            /\ C8_Holds(config.Subdomains[i], "AAAA", currentIPv6)

----------------------------------------------------------------------------
(* C9: idempotence of the record updater.  When updatePorkbunDNS is called
   twice in a row with the same name, address and record type, and the
   provider answers SUCCESS both times, neither call returns an error and the
   second call leaves the provider's records as the first left them. *)

C9_SameRequest(c, d) ==
    /\ c.domain = d.domain
    /\ c.sub = d.sub
    /\ c.type = d.type
    /\ c.content = d.content
    /\ c.ttl = d.ttl

C9_Second ==
    /\ Len(calls) = 1
    /\ Len(calls') = 2
    /\ C9_SameRequest(calls'[1], calls'[2])
    /\ ~APIFailed(calls'[1])
    /\ ~APIFailed(calls'[2])

C9_Idempotent ==
    C9_Second =>
        /\ published' = published
        /\ calls'[1].err = NoError
        /\ calls'[2].err = NoError

C9_IdempotentUpsert == [][C9_Idempotent]_vars

C9_Witness ==
    /\ pc = "updater"
    /\ Len(calls) = 2
    /\ C9_SameRequest(calls[1], calls[2])
    /\ ~APIFailed(calls[1])
    /\ ~APIFailed(calls[2])
    /\ published # atStart.published

----------------------------------------------------------------------------
(* C10: the files of last-known addresses.  In a run in which an edit call
   failed, the two files hold what they held when the run started, also when
   edits of the other family succeeded before. *)

C10_UpdateFailed ==
    \E k \in 1..Len(calls) : IsUpdate(calls[k]) /\ APIFailed(calls[k])

C10_FilesUnchangedOnFailure ==
    C10_UpdateFailed => files = atStart.files

C10_Witness ==
    /\ C10_UpdateFailed
    /\ pc = "done"
    /\ files # NoFiles
    /\ \E j \in 1..Len(calls) :
          /\ IsUpdate(calls[j])
          /\ ~APIFailed(calls[j])
          /\ calls[j].type # calls[Len(calls)].type

----------------------------------------------------------------------------
(* C11: deterministic naming.  The effective name of a configured entry is
   the domain for the empty entry and "<entry>.<domain>" otherwise; the
   lookup in the retrieved records (expectedName) and the report of an update
   or of its error (displayName) both use it. *)

C11_Named(subdomain) ==
    IF subdomain = "" THEN config.Domain ELSE subdomain \o "." \o config.Domain

C11_DeterministicNaming ==
    /\ \A i \in 1..Len(config.Subdomains) :
          /\ expectedName(config.Domain, config.Subdomains[i])
                = C11_Named(config.Subdomains[i])
          /\ displayName(config.Domain, config.Subdomains[i])
                = C11_Named(config.Subdomains[i])
    /\ (HasNames /\ Retrieved) =>
          \A t \in Types :
             (findDNSRecord(records, config.Domain, config.Subdomains[1], t) = 0)
                = (Matches(records, C11_Named(config.Subdomains[1]), t) = {})
    /\ (pc = "done" /\ err.op \in {"updateIPv4", "updateIPv6"}) =>
          err.name = C11_Named(calls[Len(calls)].sub)

C11_Witness ==
    /\ pc = "done"
    /\ err.op = "updateIPv6"
    /\ err.name = "www.example.com"
    /\ config.Subdomains[1] = ""
    /\ Matches(records, "example.com", "A") # {}

----------------------------------------------------------------------------
(* C12: the success signal of an edit.  updatePorkbunDNS returns nil exactly
   when the request was sent and the body read, parsed and of status
   SUCCESS; for a parsed body of any other status it returns an error that
   carries the raw body. *)

C12_SuccessSignal ==
    \A k \in 1..Len(calls) :
        IsUpdate(calls[k]) =>
            /\ (calls[k].err = NoError)
                  = (calls[k].kind = "body" /\ calls[k].status = "SUCCESS")
            /\ (calls[k].kind = "body" /\ calls[k].status # "SUCCESS") =>
                  /\ calls[k].err.cause = "api"
                  /\ calls[k].err.body = calls[k].raw
                  /\ calls[k].raw # ""

C12_Witness ==
    /\ pc = "updater"
    /\ Len(calls) = 2
    /\ calls[1].kind = "body"
    /\ calls[1].status = ""
    /\ calls[1].err # NoError
    /\ calls[2].status = "ERROR"
    /\ calls[2].err.body # calls[1].err.body

----------------------------------------------------------------------------
(* C13: two outcomes.  Every run, whatever configuration was loaded, ends
   either with success or with one returned error; the decision never reads
   config.Subdomains past its end. *)

C13_TwoOutcomes ==
    pc = "done" =>
        /\ result \in {"ok", "error"}
        /\ (result = "ok") = (err = NoError)

----------------------------------------------------------------------------
(* C14: step ordering.  The first call of a run resolves the IPv4 address,
   the second, issued only after the first succeeded, the IPv6 address; the
   retrieve call is the third, issued once and only after both resolutions
   succeeded; every edit call comes after the successful retrieve call; the
   records the decision was taken on are those of that one retrieve call,
   also after edits have changed what the provider publishes. *)

C14_Succeeded(k) == k <= Len(calls) /\ calls[k].err = NoError

C14_StepOrdering ==
    /\ \A k \in 1..Len(calls) :
          /\ (calls[k].op = "getIPv4") = (k = 1)
          /\ (calls[k].op = "getIPv6") = (k = 2)
          /\ (calls[k].op = "retrieve") = (k = 3)
          /\ (calls[k].op = "update") = (k > 3)
          /\ \A j \in 1..(k - 1) : j <= 3 => C14_Succeeded(j)
    /\ Retrieved => records = atStart.published
    /\ ~Retrieved => records = <<>>

C14_Witness ==
    /\ pc = "done"
    /\ result = "ok"
    /\ Len(calls) = 7
    /\ published # atStart.published
    /\ records = atStart.published

----------------------------------------------------------------------------
(* C15: bounded termination.  As stated: a run with N configured names makes
   at most 2 address resolutions, 1 retrieve call and 2*N edit calls, and
   issues no edit for the same (name, type) pair twice.  The last part fails
   for a list that names a subdomain more than once. *)

C15_Count(op) == Cardinality({k \in 1..Len(calls) : calls[k].op = op})

C15_Edits(subdomain, recordType) ==
    Cardinality({k \in 1..Len(calls) :
                    /\ calls[k].op = "update"
                    /\ calls[k].sub = subdomain
                    /\ calls[k].type = recordType})

C15_Entries(subdomain) ==
    Cardinality({i \in 1..Len(config.Subdomains) : config.Subdomains[i] = subdomain})

C15_Counts ==
    /\ C15_Count("getIPv4") + C15_Count("getIPv6") <= 2
    /\ C15_Count("retrieve") <= 1
    /\ C15_Count("update") <= 2 * Len(config.Subdomains)

C15_NoPairTwice ==
    C15_Counts /\ \A s \in Labels, t \in Types : C15_Edits(s, t) <= 1

(* C15, amended: every step of a run moves it forward in the order
   getIPv4, getIPv6, retrieve, decision, (A, AAAA) of entry 1, (A, AAAA) of
   entry 2, ..., end, so no step is entered twice, and while the run has not
   ended a step can be taken; the run makes at most 2 address resolutions,
   1 retrieve call and 2*N edit calls, and for each (name, type) pair at most
   as many edit calls as the list has entries of that name: one when the
   names of the list are distinct. *)

C15_Rank ==
    CASE pc = "getIPv4"    -> 0
      [] pc = "getIPv6"    -> 1
      [] pc = "retrieve"   -> 2
      [] pc = "decide"     -> 3
      [] pc = "updateA"    -> 2 * idx + 2
      [] pc = "updateAAAA" -> 2 * idx + 3
      [] OTHER             -> 2 * Len(config.Subdomains) + 4

C15_Bounded ==
    /\ C15_Counts
    /\ \A s \in Labels, t \in Types : C15_Edits(s, t) <= C15_Entries(s)
    /\ pc # "done" => ENABLED Next
    /\ pc \in {"updateA", "updateAAAA"} => idx \in 1..Len(config.Subdomains)

C15_BoundedTermination == []C15_Bounded /\ [][C15_Rank' > C15_Rank]_vars

C15_Witness ==
    /\ pc = "done"
    /\ config.Subdomains = <<"www", "www">>
    /\ C15_Edits("www", "A") = 2
    /\ C15_Edits("www", "AAAA") = 2

----------------------------------------------------------------------------
(* C16: what is written.  Every edit call of a run names an entry of the
   configured list, the configured domain and TTL, and type A with the IPv4
   address or type AAAA with the IPv6 address that the run resolved at its
   start, which stay as resolved for the rest of the run; a published record
   differs from what it was at the start of the run, or is new, only where an
   edit call of the run named its name and type and carried its content. *)

C16_Configured(subdomain) ==
    \E i \in 1..Len(config.Subdomains) : config.Subdomains[i] = subdomain

C16_Request(c) ==
    /\ C16_Configured(c.sub)
    /\ c.domain = config.Domain
    /\ c.ttl = config.TTL
    /\ c.type \in {"A", "AAAA"}
    /\ c.type = "A" => c.content = currentIPv4 /\ c.content \in IPv4s
    /\ c.type = "AAAA" => c.content = currentIPv6 /\ c.content \in IPv6s

C16_WrittenBy(rec) ==
    \E k \in 1..Len(calls) :
        /\ IsUpdate(calls[k])
        /\ EffectiveName(calls[k].sub) = rec.Name
        /\ calls[k].type = rec.Type
        /\ calls[k].content = rec.Content

C16_Records ==
    /\ Len(published) >= Len(atStart.published)
    /\ \A k \in 1..Len(published) :
          IF k <= Len(atStart.published)
          THEN /\ published[k].Name = atStart.published[k].Name
               /\ published[k].Type = atStart.published[k].Type
               /\ published[k] # atStart.published[k] => C16_WrittenBy(published[k])
          ELSE C16_WrittenBy(published[k])

C16_AddressesKept ==
    /\ pc # "getIPv4" => currentIPv4' = currentIPv4
    /\ pc # "getIPv6" => currentIPv6' = currentIPv6

C16_WriteContent ==
    /\ [](C16_Records /\ \A k \in 1..Len(calls) : IsUpdate(calls[k]) => C16_Request(calls[k]))
    /\ [][C16_AddressesKept]_vars

C16_Witness ==
    /\ pc = "done"
    /\ config.Subdomains = <<"www">>
    /\ Len(calls) = 5
    /\ calls[4].type = "A" /\ calls[4].content = "2.2.2.2"
    /\ calls[5].type = "AAAA" /\ calls[5].content = "::2"
    /\ Len(atStart.published) = 2
    /\ atStart.published[1].Name = "example.com"
    /\ published[1] = atStart.published[1]
    /\ published[2] # atStart.published[2]

----------------------------------------------------------------------------
(* C17: run-level idempotence.  When a run has returned nil and the next run,
   started at once with the same configuration, resolves the same IPv4 and
   IPv6 addresses, that run issues no edit call; when it has also retrieved
   the records it returns nil and leaves the provider's records as it found
   them. *)

C17_SameAddresses ==
    /\ run = 2
    /\ prev.result = "ok"
    /\ currentIPv4 = prev.ipv4
    /\ currentIPv6 = prev.ipv6

C17_RunIdempotent ==
    C17_SameAddresses =>
        /\ UpdateCalls = <<>>
        /\ published = atStart.published
        /\ (pc = "done" /\ Retrieved) => result = "ok"

C17_Witness ==
    /\ C17_SameAddresses
    /\ pc = "done"
    /\ result = "ok"
    /\ config.Subdomains = <<"", "www">>
    /\ Len(published) = 4
    /\ \A k \in 1..4 : published[k].Content \in {currentIPv4, currentIPv6}

====
